---- MODULE Spec2Model ----
(***************************************************************************)
(* stk_balance LifeCycle (packages/stk/stk_balance/stk_balance/setup/      *)
(* LifeCycle.cpp): the orchestrator that every process of an MPI group     *)
(* constructs from the command line and then drives through run() and      *)
(* exit_code().                                                            *)
(*                                                                         *)
(* One LifeCycle instance lives on every process of the group.  The        *)
(* constructor is local and is one step; run() is one step up to its first *)
(* collective call (BalanceIO::initial_decomp) and then one step per       *)
(* collective call, since a collective call returns only when every member *)
(* of the group has made it.  A collaborator signals failure by throwing   *)
(* an object derived from std::exception (the handlers read e.what()); a   *)
(* thrown exception is the field exc of the process record until a handler *)
(* catches it or it leaves the public function.                            *)
(***************************************************************************)
EXTENDS Integers, Sequences, FiniteSets, TLC

(* ---- bounds ----------------------------------------------------------- *)
MaxProcs == 2       \* largest process group
MaxRuns == 2        \* calls of run() made on one instance

(* ---- command lines ---------------------------------------------------- *)
InputFilenames == {"mesh.g"}
OutputFilenames == {"mesh.g", "./mesh.g", "out/mesh.g"}
LogFilenames == {"cout", "cerr", "balance.log"}

\* BalanceSettings as LifeCycle reads it: get_input_filename(),
\* get_output_filename(), get_log_filename().
Settings == [inputFilename : InputFilenames,
             outputFilename : OutputFilenames,
             logFilename : LogFilenames]

DefaultSettings == [inputFilename |-> "", outputFilename |-> "", logFilename |-> ""]

\* An argument list is either one the parser rejects, or one that names the
\* three files.
ArgLists == {[wellFormed |-> FALSE, settings |-> DefaultSettings]}
            \cup {[wellFormed |-> TRUE, settings |-> s] : s \in Settings}

\* Path canonicalisation used by the validator's comparison of input and output.
Canonical(path) == IF path = "./mesh.g" THEN "mesh.g" ELSE path

NoException == "none"

(* ---- state ------------------------------------------------------------ *)
VARIABLES
    numProcs,     \* stk::parallel_machine_size(m_comm)
    argv,         \* the argument list the group was launched with
    fileExists,   \* fileExists[p]: the input file exists as seen from process p
    proc          \* proc[p]: the LifeCycle instance and the process-wide state of rank p

vars == <<numProcs, argv, fileExists, proc>>

\* Ranks of the largest group, and the ranks of this group.
Ranks == 0 .. (MaxProcs - 1)

Procs == 0 .. (numProcs - 1)

\* The three collective calls of balance(), in program order.
Collectives == <<"initial_decomp", "balance", "write">>

InCollective == {"initial_decomp", "balance", "write"}

\* States in which the constructor has returned and no run() is in progress.
AtRest == {"ParseFailed", "Parsed", "NoOp", "BalanceFailed", "Balanced"}

\* LifeCycle's member initialisers, and the process-wide streams before
\* anything is bound.
InitProc(rank) ==
    [pc |-> "Constructing",
     m_exitCode |-> 0,
     m_isProc0 |-> (rank = 0),
     m_settings |-> DefaultSettings,
     m_outputP0 |-> "initial",
     iossOutput |-> "initial",
     out |-> [cout |-> <<>>, cerr |-> <<>>, log |-> <<>>],
     logOpened |-> 0,
     registered |-> {},
     trace |-> <<>>,
     exc |-> NoException,
     escaped |-> "none",
     runs |-> 0,
     runStart |-> 0,
     entered |-> 0,
     left |-> 0]

(* ---- streams ---------------------------------------------------------- *)
\* operator<< of one line to a stream.  The null sink discards; the stream
\* EnvData starts with is the standard output.
Write(s, stream, line) ==
    CASE stream = "null" -> s
      [] stream = "initial" -> [s EXCEPT !.out.cout = Append(@, line)]
      [] OTHER -> [s EXCEPT !.out[stream] = Append(@, line)]

RECURSIVE WriteAll(_, _, _)
WriteAll(s, streams, line) ==
    IF streams = {} THEN s
    ELSE LET t == CHOOSE x \in streams : TRUE
         IN WriteAll(Write(s, t, line), streams \ {t}, line)

\* The trace records, in order, every call the process makes, and "throw"
\* right after a call that threw.
Call(s, name) == [s EXCEPT !.trace = Append(@, name)]

Throw(s, what) == [s EXCEPT !.exc = what, !.trace = Append(@, "throw")]

Caught(s) == [s EXCEPT !.exc = NoException]

(* ---- collaborators ---------------------------------------------------- *)
\* LogUtils: initialize_environment(m_comm, argv).
initialize_environment(s, envOk) ==
    IF envOk THEN Call(s, "initialize_environment")
    ELSE Throw(Call(s, "initialize_environment"), "environment setup failed")

\* Parser::parse_command_line_options(argc, argv, settings).
parse_command_line_options(s, args) ==
    IF args.wellFormed
    THEN [Call(s, "parse_command_line_options") EXCEPT !.m_settings = args.settings]
    ELSE Throw(Call(s, "parse_command_line_options"), "malformed command line")

\* FileValidator::require_file_exists(inputFilename).
require_file_exists(s, exists) ==
    IF exists THEN Call(s, "require_file_exists")
    ELSE Throw(Call(s, "require_file_exists"), "input file does not exist")

\* FileValidator::serial_input_equals_output(input, output).
serial_input_equals_output(size, input, output) ==
    size = 1 /\ Canonical(input) = Canonical(output)

\* stk::bind_output_streams("log=\"<name>\""): opens the named log file.
bind_log_file(s, openOk) ==
    IF openOk THEN [Call(s, "bind_output_streams") EXCEPT !.logOpened = @ + 1]
    ELSE Throw(Call(s, "bind_output_streams"), "cannot open log file")

\* print_banner(os): the product banner, written to the stream it is given.
print_banner(s, stream) ==
    Write(Call(s, "print_banner"), stream, <<"stk_balance banner">>)

(* ---- LifeCycle: private members ---------------------------------------- *)
\* Fault: parse() that does not ask the validator for the input file.
parse_NoFileCheck(s, args, exists) == parse_command_line_options(s, args)

\* LifeCycle::parse
parse(s, args, exists) ==
    LET s1 == parse_command_line_options(s, args)
    IN IF s1.exc # NoException THEN s1
       ELSE require_file_exists(s1, exists)

\* Fault: serial_no_op() that hands the input filename to the validator twice.
serial_no_op_InputTwice(s, size) ==
    serial_input_equals_output(size, s.m_settings.inputFilename,
                               s.m_settings.inputFilename)

\* LifeCycle::serial_no_op
serial_no_op(s, size) ==
    serial_input_equals_output(size, s.m_settings.inputFilename,
                               s.m_settings.outputFilename)

\* Fault: set_output_streams() without the m_isProc0 test.
set_output_streams_AllRanks(s, openOk) ==
    LET s0 == Call(s, "set_output_streams")
        logName == s0.m_settings.logFilename
        s1 == IF logName = "cout" \/ logName = "cerr"
              THEN [s0 EXCEPT !.m_outputP0 = logName]
              ELSE LET b == bind_log_file(s0, openOk)
                   IN IF b.exc # NoException THEN b
                      ELSE [b EXCEPT !.m_outputP0 = "log"]
    IN IF s1.exc # NoException THEN s1
       ELSE [s1 EXCEPT !.iossOutput = s1.m_outputP0]

\* LifeCycle::set_output_streams
set_output_streams(s, openOk) ==
    LET s0 == Call(s, "set_output_streams")
        logName == s0.m_settings.logFilename
        s1 == IF s0.m_isProc0
              THEN IF logName = "cout" \/ logName = "cerr"
                   THEN [s0 EXCEPT !.m_outputP0 = logName]
                   ELSE LET b == bind_log_file(s0, openOk)
                        IN IF b.exc # NoException THEN b
                           ELSE [b EXCEPT !.m_outputP0 = "log"]
              ELSE [s0 EXCEPT !.m_outputP0 = "null"]
    IN IF s1.exc # NoException THEN s1
       ELSE [s1 EXCEPT !.iossOutput = s1.m_outputP0]

\* Fault: print_parse_error() without the m_isProc0 test.
print_parse_error_AllRanks(s, what) ==
    Write(Call(s, "print_parse_error"), "cerr", <<what>>)

\* LifeCycle::print_parse_error
print_parse_error(s, what) ==
    IF s.m_isProc0 THEN Write(Call(s, "print_parse_error"), "cerr", <<what>>)
    ELSE Call(s, "print_parse_error")

\* Fault: print_balance_error() that writes to sierra::Env::outputP0().
print_balance_error_ToBound(s, what) ==
    IF s.m_isProc0 THEN Write(Call(s, "print_balance_error"), s.m_outputP0, <<what>>)
    ELSE Call(s, "print_balance_error")

\* LifeCycle::print_balance_error
print_balance_error(s, what) ==
    IF s.m_isProc0 THEN Write(Call(s, "print_balance_error"), "cerr", <<what>>)
    ELSE Call(s, "print_balance_error")

\* LifeCycle::print_no_op_message
print_no_op_message(s) ==
    Write(Call(s, "print_no_op_message"), s.m_outputP0,
          <<"Running on 1 MPI rank and input-file (", s.m_settings.inputFilename,
            ") == output-file (", s.m_settings.outputFilename, "), doing nothing.">>)

\* Fault: the banner stream bound to the log alone ("diag_stream>+cout" left out).
diag_targets_LogOnly(logName) ==
    IF ~(logName = "cout" \/ logName = "cerr") THEN {"log"} ELSE {logName}

\* The streams diag_stream writes to after the bind_output_streams calls of
\* print_running_message: "diag_stream>log" then "diag_stream>+cout" with a
\* log file, "diag_stream>" + logName without.
diag_targets(logName) ==
    IF ~(logName = "cout" \/ logName = "cerr") THEN {"log", "cout"} ELSE {logName}

\* Fault: the output pattern built from the rank of the process.
output_files_line_Rank(s, size) ==
    <<"    Output files: ", s.m_settings.outputFilename, ".",
      IF s.m_isProc0 THEN "0" ELSE "1", ".*">>

\* The last line of the running message: the output filename, ".", the
\* number of ranks in decimal, ".*".
output_files_line(s, size) ==
    <<"    Output files: ", s.m_settings.outputFilename, ".", ToString(size), ".*">>

\* LifeCycle::print_running_message.  fault names the stream-registry call
\* that throws, if one does.
print_running_message(s, size, fault) ==
    LET s0 == Call(s, "print_running_message")
        logName == s0.m_settings.logFilename
        usingLogFile == ~(logName = "cout" \/ logName = "cerr")
        targets == diag_targets(logName)
        numRanks == ToString(size)
        r0 == Call(s0, "register_ostream")
        r1 == [r0 EXCEPT !.registered = @ \cup {"diag_stream"}]
        b1 == Call(r1, "bind_output_streams")
        l1 == WriteAll(b1, targets,
                       <<"Running stk_balance on ", numRanks, " MPI ranks">>)
        l2 == IF usingLogFile
              THEN WriteAll(l1, targets, <<"        Log file: ", logName>>)
              ELSE l1
        l3 == WriteAll(l2, targets,
                       <<"      Input file: ", s0.m_settings.inputFilename>>)
        l4 == WriteAll(l3, targets, output_files_line(s0, size))
    IN IF ~s0.m_isProc0 THEN s0
       ELSE IF fault = "register_ostream"
            THEN Throw(r0, "cannot register diag_stream")
       ELSE IF fault = "bind_output_streams"
            THEN Throw(b1, "cannot bind diag_stream")
       ELSE [Call(l4, "unregister_ostream") EXCEPT !.registered = @ \ {"diag_stream"}]

(* ---- LifeCycle: public members ----------------------------------------- *)
\* An exception leaves a public function: the caller sees it, not an exit code.
Escape(s, where) == [s EXCEPT !.pc = "Terminated", !.escaped = where]

\* Fault: a constructor whose handler leaves m_exitCode as it is.
LifeCycle_ExitCodeKept(s, args, exists, envOk, openOk) ==
    LET s1 == initialize_environment(s, envOk)
    IN IF s1.exc # NoException THEN Escape(s1, "LifeCycle")
       ELSE LET s2 == parse(s1, args, exists)
            IN IF s2.exc # NoException
               THEN [print_parse_error(Caught(s2), s2.exc) EXCEPT !.pc = "ParseFailed"]
               ELSE LET s3 == set_output_streams(s2, openOk)
                    IN IF s3.exc # NoException THEN Escape(s3, "LifeCycle")
                       ELSE [s3 EXCEPT !.pc = "Parsed"]

\* Fault: a constructor whose handler does not return: it goes on to
\* set_output_streams().
LifeCycle_NoReturn(s, args, exists, envOk, openOk) ==
    LET s1 == initialize_environment(s, envOk)
    IN IF s1.exc # NoException THEN Escape(s1, "LifeCycle")
       ELSE LET s2 == parse(s1, args, exists)
                f == [print_parse_error(Caught(s2), s2.exc) EXCEPT !.m_exitCode = 1]
                s3 == set_output_streams(IF s2.exc # NoException THEN f ELSE s2, openOk)
            IN IF s3.exc # NoException THEN Escape(s3, "LifeCycle")
               ELSE [s3 EXCEPT !.pc = IF s2.exc # NoException THEN "ParseFailed"
                                      ELSE "Parsed"]

\* LifeCycle::LifeCycle
LifeCycle(s, args, exists, envOk, openOk) ==
    LET s1 == initialize_environment(s, envOk)
    IN IF s1.exc # NoException THEN Escape(s1, "LifeCycle")
       ELSE LET s2 == parse(s1, args, exists)
            IN IF s2.exc # NoException
               THEN [print_parse_error(Caught(s2), s2.exc)
                       EXCEPT !.m_exitCode = 1, !.pc = "ParseFailed"]
               ELSE LET s3 == set_output_streams(s2, openOk)
                    IN IF s3.exc # NoException THEN Escape(s3, "LifeCycle")
                       ELSE [s3 EXCEPT !.pc = "Parsed"]

\* Fault: a handler that prints and leaves m_exitCode as it is.
run_catch_NoExitCode(s) ==
    [print_balance_error(Caught(s), s.exc) EXCEPT !.pc = "BalanceFailed"]

\* Fault: a handler that sets the exit code of the parse phase.
run_catch_ExitOne(s) ==
    [print_balance_error(Caught(s), s.exc)
       EXCEPT !.m_exitCode = 1, !.pc = "BalanceFailed"]

\* Fault: a handler that sets the exit code and goes back to the read.
run_catch_Retry(s) ==
    [Call([print_balance_error(Caught(s), s.exc) EXCEPT !.m_exitCode = 2],
          "initial_decomp")
       EXCEPT !.pc = "initial_decomp", !.entered = @ + 1]

\* The handler of run(): catch (std::exception& e).
run_catch(s) ==
    [print_balance_error(Caught(s), s.exc)
       EXCEPT !.m_exitCode = 2, !.pc = "BalanceFailed"]

\* A collective call is made: the process is inside it until it returns or throws.
Enter(s, name) ==
    [Call(s, name) EXCEPT !.pc = name, !.entered = @ + 1]

\* LifeCycle::balance up to the call of io.initial_decomp(): the two local
\* constructions, then the first collective call.
balance(s, ioOk) ==
    LET s1 == Call(Call(s, "BalanceIO"), "Balancer")
    IN IF ~ioOk THEN Throw(s1, "cannot set up mesh io")
       ELSE Enter(s1, "initial_decomp")

\* Fault: balance() without the call of balancer.balance(mesh).
balance_resume_SkipBalance(s) ==
    CASE s.pc = "initial_decomp" -> Enter(s, "write")
      [] s.pc = "balance" -> Enter(s, "write")
      [] s.pc = "write" -> [s EXCEPT !.pc = "Balanced"]

\* LifeCycle::balance from the return of one collective call: the next call,
\* or the return of balance() and with it of run().
balance_resume(s) ==
    CASE s.pc = "initial_decomp" -> Enter(s, "balance")
      [] s.pc = "balance" -> Enter(s, "write")
      [] s.pc = "write" -> [s EXCEPT !.pc = "Balanced"]

\* LifeCycle::run past its guard, up to its return or its first collective call.
run_body(s, size, fault, ioOk) ==
    LET s1 == print_running_message(s, size, fault)
    IN IF s1.exc # NoException THEN Escape(s1, "run")
       ELSE LET s2 == print_banner(s1, s1.m_outputP0)
                s3 == Call(s2, "serial_no_op")
            IN IF serial_no_op(s3, size)
               THEN [print_no_op_message(s3) EXCEPT !.pc = "NoOp"]
               ELSE LET s4 == balance(s3, ioOk)
                    IN IF s4.exc # NoException THEN run_catch(s4)
                       ELSE s4

\* A call of run() begins: the count of calls, and where its calls start in
\* the trace.
RunEntry(s) == [s EXCEPT !.runs = @ + 1, !.runStart = Len(s.trace)]

\* Fault: run() without the test of m_exitCode.
run_NoGuard(s, size, fault, ioOk) == run_body(RunEntry(s), size, fault, ioOk)

\* LifeCycle::run up to its return or its first collective call.
run(s, size, fault, ioOk) ==
    IF s.m_exitCode # 0 THEN RunEntry(s)
    ELSE run_body(RunEntry(s), size, fault, ioOk)

\* LifeCycle::exit_code
exit_code(s) == s.m_exitCode

(* ---- actions ----------------------------------------------------------- *)
Faults == {"none", "register_ostream", "bind_output_streams"}

\* The process constructs its LifeCycle.
Construct(p) ==
    /\ p \in Procs
    /\ proc[p].pc = "Constructing"
    /\ \E envOk \in BOOLEAN, openOk \in BOOLEAN :
         proc' = [proc EXCEPT ![p] = LifeCycle(@, argv, fileExists[p], envOk, openOk)]
    /\ UNCHANGED <<numProcs, argv, fileExists>>

\* The caller calls run().
Run(p) ==
    /\ p \in Procs
    /\ proc[p].pc \in AtRest
    /\ proc[p].runs < MaxRuns
    /\ \E fault \in Faults, ioOk \in BOOLEAN :
         proc' = [proc EXCEPT ![p] = run(@, numProcs, fault, ioOk)]
    /\ UNCHANGED <<numProcs, argv, fileExists>>

\* The collective calls the process has taken part in: those it made, less
\* the one it threw out of before communicating.
Joined(s) == s.entered - s.left

\* The collective call the process is in returns: every member has made it
\* and taken part in it.
CollectiveReturns(p) ==
    /\ p \in Procs
    /\ proc[p].pc \in InCollective
    /\ \A q \in Procs : Joined(proc[q]) >= proc[p].entered
    /\ proc' = [proc EXCEPT ![p] = balance_resume(@)]
    /\ UNCHANGED <<numProcs, argv, fileExists>>

\* The process left a collective call by an exception.
ThrewInCollective(s) ==
    \E i \in 2 .. Len(s.trace) : s.trace[i] = "throw" /\ s.trace[i - 1] \in InCollective

\* The collective calls the process has returned from: those it made, less
\* the one it is inside or threw out of.
Returned(s) ==
    IF s.pc \in InCollective \/ ThrewInCollective(s) THEN s.entered - 1 ELSE s.entered

\* The collective call the process is in throws, after the process has taken
\* part in it (its peers can complete the call) or before (they cannot, and
\* none of them has).
CollectiveThrows(p) ==
    /\ p \in Procs
    /\ proc[p].pc \in InCollective
    /\ \E before \in BOOLEAN :
         /\ before => \A q \in Procs \ {p} : Returned(proc[q]) < proc[p].entered
         /\ proc' = [proc EXCEPT ![p] =
                     run_catch(Throw([@ EXCEPT !.left = IF before THEN 1 ELSE 0],
                                     "step failed"))]
    /\ UNCHANGED <<numProcs, argv, fileExists>>

\* The caller calls exit_code(): a const member, it returns m_exitCode and
\* leaves every field as it is.
ExitCode(p) ==
    /\ p \in Procs
    /\ proc[p].pc \in AtRest
    /\ exit_code(proc[p]) \in {0, 1, 2}
    /\ UNCHANGED vars

Init ==
    /\ numProcs \in 1 .. MaxProcs
    /\ argv \in ArgLists
    /\ fileExists \in [0 .. (numProcs - 1) -> BOOLEAN]
    /\ proc = [p \in 0 .. (numProcs - 1) |-> InitProc(p)]

Next ==
    \E p \in Ranks :
        \/ Construct(p)
        \/ Run(p)
        \/ CollectiveReturns(p)
        \/ CollectiveThrows(p)
        \/ ExitCode(p)

Spec == Init /\ [][Next]_vars

(* ======================================================================= *)
(* Properties                                                              *)
(* ======================================================================= *)

\* The calls made since the latest call of run() began.
RunTrace(s) == SubSeq(s.trace, s.runStart + 1, Len(s.trace))

IsCollective(e) == e \in InCollective

\* The collective calls among them, in the order made.
Pipeline(s) == SelectSeq(RunTrace(s), IsCollective)

Occurs(e, seq) == \E i \in 1 .. Len(seq) : seq[i] = e

IsPrefix(a, b) == Len(a) <= Len(b) /\ a = SubSeq(b, 1, Len(a))

\* The parse phase fails on process p: the parser rejects the argument list,
\* or the input file it names is missing there.
ParseRejects(p) == ~argv.wellFormed \/ ~fileExists[p]

(* ---- C1 --------------------------------------------------------------- *)
\* C1: on every process whose constructor reaches the parse phase with an
\* argument list the parser rejects, or with a well-formed one whose input
\* file does not exist, the instance is in state ParseFailed, m_exitCode is 1
\* and exit_code() returns 1, from the return of the constructor on.
C1_ParseFailureExitsOne ==
    \A p \in Procs :
        (Occurs("parse_command_line_options", proc[p].trace) /\ ParseRejects(p))
            => /\ proc[p].pc = "ParseFailed"
               /\ proc[p].m_exitCode = 1
               /\ exit_code(proc[p]) = 1

\* Witness of C1: a well-formed argument list, the input file missing on a
\* process, and exit_code() returns 1 there after a call of run().
C1_Witness ==
    \E p \in Procs :
        /\ argv.wellFormed /\ ~fileExists[p]
        /\ proc[p].pc = "ParseFailed"
        /\ proc[p].runs >= 1
        /\ exit_code(proc[p]) = 1

(* ---- C2 --------------------------------------------------------------- *)
\* A step is a call of run() on p when it raises p's count of calls.
RunCalled(p) == proc'[p].runs = proc[p].runs + 1

\* C2: a call of run() made while m_exitCode is non-zero changes nothing but
\* the count of calls: the exit code, the state, every stream, the stream
\* bindings and registry are as before, and no call is added to the trace
\* (no banner, no no-op predicate, no read, balance or write).
C2_RunAfterFailureIsNoOp ==
    [][\A p \in Procs :
          (RunCalled(p) /\ proc[p].m_exitCode # 0)
              => proc'[p] = [proc[p] EXCEPT !.runs = @ + 1,
                                            !.runStart = Len(proc[p].trace)]]_vars

\* Witness of C2: run() has been called after a parse failure on one process
\* and a second time after a balance failure on another, and neither call
\* made any call of its own.
C2_Witness ==
    \E p, q \in Procs :
        /\ proc[p].pc = "ParseFailed" /\ proc[p].runs >= 1
        /\ proc[q].pc = "BalanceFailed" /\ proc[q].runs = 2
        /\ RunTrace(proc[p]) = <<>> /\ RunTrace(proc[q]) = <<>>

(* ---- C3 --------------------------------------------------------------- *)
\* run() has gone past its guard in the latest call.
RunExecuted(s) == s.runs >= 1 /\ RunTrace(s) # <<>>

\* C3: in every call of run() the collective calls made so far are a prefix of
\* <<initial_decomp, balance, write>> (each at most once, in that order, the
\* process being inside the last one made until it returns); and a call of
\* run() on a parsed configuration whose no-op predicate is false, in which
\* nothing threw, returns in state Balanced having made exactly the three
\* calls, with m_exitCode 0.
C3_PipelineOnceInOrder ==
    \A p \in Procs :
        LET s == proc[p] IN
        /\ s.runs >= 1 => IsPrefix(Pipeline(s), Collectives)
        /\ s.pc \in InCollective
              => /\ Pipeline(s) # <<>>
                 /\ Pipeline(s)[Len(Pipeline(s))] = s.pc
                 /\ RunTrace(s)[Len(RunTrace(s))] = s.pc
        /\ (RunExecuted(s) /\ s.pc \in AtRest
              /\ ~serial_input_equals_output(numProcs, s.m_settings.inputFilename,
                                             s.m_settings.outputFilename)
              /\ ~Occurs("throw", RunTrace(s)))
              => /\ s.pc = "Balanced"
                 /\ Pipeline(s) = Collectives
                 /\ s.m_exitCode = 0
        /\ s.pc = "Balanced" => Pipeline(s) = Collectives /\ s.m_exitCode = 0

\* Witness of C3: a group of two whose input and output are the same file,
\* both processes Balanced after one call of run().
C3_Witness ==
    /\ numProcs = 2
    /\ Canonical(argv.settings.inputFilename) = Canonical(argv.settings.outputFilename)
    /\ \A p \in Procs : proc[p].pc = "Balanced" /\ proc[p].runs = 1

(* ---- C4 --------------------------------------------------------------- *)
PipelineCalls == {"Balancer", "initial_decomp", "balance", "write"}

\* C4: when a step of balance() throws, the very next call is
\* print_balance_error and it is the last call the instance ever makes (no
\* later step, no retry); from then on the state is BalanceFailed, with
\* m_exitCode 2, and no further collective call is entered.
C4_StepFailureExitsTwo ==
    \A p \in Procs :
        LET s == proc[p] IN
        \A i \in 2 .. Len(s.trace) :
            (s.trace[i] = "throw" /\ s.trace[i - 1] \in PipelineCalls)
                => /\ Len(s.trace) = i + 1
                   /\ s.trace[i + 1] = "print_balance_error"
                   /\ s.pc = "BalanceFailed"
                   /\ s.m_exitCode = 2
                   /\ s.entered = Len(SelectSeq(SubSeq(s.trace, 1, i), IsCollective))

\* Witness of C4: balance threw after the read returned, a second call of
\* run() has been made, and write was never called.
C4_Witness ==
    \E p \in Procs :
        LET s == proc[p] IN
        /\ s.pc = "BalanceFailed" /\ s.runs = 2
        /\ Len(s.trace) >= 4
        /\ SubSeq(s.trace, Len(s.trace) - 3, Len(s.trace))
             = <<"initial_decomp", "balance", "throw", "print_balance_error">>

(* ---- C5 --------------------------------------------------------------- *)
NoOpLine(s) ==
    <<"Running on 1 MPI rank and input-file (", s.m_settings.inputFilename,
      ") == output-file (", s.m_settings.outputFilename, "), doing nothing.">>

\* C5: a call of run() that evaluates the no-op predicate takes the no-op
\* path exactly when the group has one process and the canonical input path
\* equals the canonical output path; on that path the no-op message is the
\* last line of the bound stream, m_exitCode is 0 and neither BalanceIO nor
\* any collective call is made; otherwise balance() is entered, also when
\* input equals output in a group of more than one process.
C5_NoOpIffSerialSameFile ==
    \A p \in Procs :
        LET s == proc[p]
            same == Canonical(s.m_settings.inputFilename)
                      = Canonical(s.m_settings.outputFilename)
        IN Occurs("serial_no_op", RunTrace(s)) /\ s.runs >= 1
             => /\ (s.pc = "NoOp") <=> (numProcs = 1 /\ same)
                /\ Occurs("print_no_op_message", RunTrace(s)) <=> (numProcs = 1 /\ same)
                /\ s.pc = "NoOp"
                     => /\ s.m_exitCode = 0
                        /\ Pipeline(s) = <<>>
                        /\ ~Occurs("BalanceIO", RunTrace(s))
                        /\ s.out[s.m_outputP0] # <<>>
                        /\ s.out[s.m_outputP0][Len(s.out[s.m_outputP0])] = NoOpLine(s)
                /\ ~(numProcs = 1 /\ same) => Occurs("BalanceIO", RunTrace(s))

\* Witness of C5: a single process whose output name differs from the input
\* name as a string but not canonically has taken the no-op path.
C5_Witness ==
    /\ numProcs = 1
    /\ proc[0].pc = "NoOp"
    /\ proc[0].m_settings.inputFilename # proc[0].m_settings.outputFilename
    /\ proc[0].m_settings.logFilename = "balance.log"

(* ---- C6 --------------------------------------------------------------- *)
\* The instance has reached a terminal state: the parse phase failed, or a
\* call of run() has returned.
TerminalReached(s) ==
    \/ s.pc = "ParseFailed"
    \/ s.runs >= 1 /\ s.pc \in {"NoOp", "BalanceFailed", "Balanced"}
    \/ s.runs >= 2

\* C6 (as claimed): once the instance has reached a terminal state
\* (ParseFailed, NoOp, BalanceFailed or Balanced) no step changes what
\* exit_code() returns, whatever further calls of exit_code() and run() are
\* made.
C6_ExitCodeStableAfterTerminal ==
    [][\A p \in Procs :
          TerminalReached(proc[p])
                => exit_code(proc'[p]) = exit_code(proc[p])]_vars

(* ---- C7 --------------------------------------------------------------- *)
ParseCalls == {"parse_command_line_options", "require_file_exists"}

\* Some call of the given set threw.
ThrewIn(s, calls) ==
    \E i \in 2 .. Len(s.trace) : s.trace[i] = "throw" /\ s.trace[i - 1] \in calls

C7_ExitCodeRange ==
    \A p \in Procs :
        LET s == proc[p] IN
        /\ s.m_exitCode \in {0, 1, 2}
        /\ s.m_exitCode = 1
              => ParseRejects(p) /\ ThrewIn(s, ParseCalls) /\ ~ThrewIn(s, PipelineCalls)
        /\ s.m_exitCode = 2
              => s.runs >= 1 /\ ThrewIn(s, PipelineCalls) /\ ~ThrewIn(s, ParseCalls)

C7_NonZeroIsFinal ==
    \A p \in Procs :
        proc[p].m_exitCode # 0 => proc'[p].m_exitCode = proc[p].m_exitCode

\* C7: m_exitCode is always 0, 1 or 2; it is 1 only if parse() threw in the
\* constructor, 2 only if a step of balance() threw inside run(); and no step
\* changes a non-zero m_exitCode.
C7_ExitCodeClassified == [](C7_ExitCodeRange) /\ [][C7_NonZeroIsFinal]_vars

\* Witness of C7: in one group a process ended with exit code 1 and another
\* with exit code 2, and run() has been called twice on each.
C7_Witness ==
    \E p, q \in Procs :
        /\ proc[p].m_exitCode = 1 /\ proc[p].runs = 2
        /\ proc[q].m_exitCode = 2 /\ proc[q].runs = 2

(* ---- C8 --------------------------------------------------------------- *)
\* C8: a process that is not rank 0 never has a line on its standard output,
\* its standard error or the log file, and never opens the log file.
C8_NonRootIsSilent ==
    \A p \in Procs :
        ~proc[p].m_isProc0
            => /\ proc[p].out.cout = <<>>
               /\ proc[p].out.cerr = <<>>
               /\ proc[p].out.log = <<>>
               /\ proc[p].logOpened = 0

\* Witness of C8: in a group of two in named-file mode, rank 1 went through
\* the banner and a balance failure while rank 0 wrote to its standard
\* error and to the log file.
C8_Witness ==
    /\ numProcs = 2
    /\ proc[1].pc = "BalanceFailed"
    /\ Occurs("print_banner", proc[1].trace)
    /\ Occurs("print_balance_error", proc[1].trace)
    /\ proc[0].out.cerr # <<>>
    /\ proc[0].out.log # <<>>

(* ---- C9 --------------------------------------------------------------- *)
\* C9 (as claimed): no exception ever leaves the constructor or run(): no
\* process is terminated by one, whatever collaborator threw it.
C9_NoFailureEscapes ==
    \A p \in Procs : proc[p].escaped = "none" /\ proc[p].pc # "Terminated"

(* ---- C10 -------------------------------------------------------------- *)
ErrorMessages ==
    {"malformed command line", "input file does not exist",
     "cannot set up mesh io", "step failed"}

IsErrorLine(line) == Len(line) = 1 /\ line[1] \in ErrorMessages

ErrorLines(stream) == Len(SelectSeq(stream, IsErrorLine))

\* The failures the instance has caught: throws of parse() and of the steps
\* of balance().
CaughtFailures(s) ==
    Cardinality({i \in 2 .. Len(s.trace) :
                    s.trace[i] = "throw" /\ s.trace[i - 1] \in ParseCalls \cup PipelineCalls})

\* C10 (as claimed): on the root process the one line of a failure is on the
\* stream the output router has bound (the log file in named-file mode, the
\* selected standard stream in sentinel mode) whenever one has been bound, and
\* on no other stream; a process that is not the root writes nothing.
C10_ErrorLineOnBoundStream ==
    \A p \in Procs :
        LET s == proc[p] IN
        IF s.m_isProc0
        THEN s.m_outputP0 # "initial"
               => /\ ErrorLines(s.out[s.m_outputP0]) = CaughtFailures(s)
                  /\ ErrorLines(s.out.cout) + ErrorLines(s.out.cerr) + ErrorLines(s.out.log)
                       = CaughtFailures(s)
        ELSE ErrorLines(s.out.cout) + ErrorLines(s.out.cerr) + ErrorLines(s.out.log) = 0

\* C10 (amended): on the root process there is exactly one line per caught
\* failure and it is on the standard error, whatever stream the output router
\* has bound: never on the log file, and on the standard output never; a
\* process that is not the root writes no such line.
C10_ErrorLineOnStderr ==
    \A p \in Procs :
        LET s == proc[p] IN
        /\ CaughtFailures(s) <= 1
        /\ IF s.m_isProc0
           THEN /\ ErrorLines(s.out.cerr) = CaughtFailures(s)
                /\ ErrorLines(s.out.cout) = 0
                /\ ErrorLines(s.out.log) = 0
           ELSE ErrorLines(s.out.cout) + ErrorLines(s.out.cerr) + ErrorLines(s.out.log) = 0

\* Witness of C10: in named-file mode both processes of a group caught a
\* balance failure; the root's line is on its standard error while its
\* bound stream is the log file.
C10_Witness ==
    /\ numProcs = 2
    /\ \A p \in Procs : proc[p].pc = "BalanceFailed"
    /\ proc[0].m_outputP0 = "log"
    /\ ErrorLines(proc[0].out.cerr) = 1
    /\ proc[0].out.log # <<>>

(* ---- C11 -------------------------------------------------------------- *)
\* The constructor of the process reached the parse phase and has returned.
ParseDone(s) == s.pc # "Constructing" /\ Occurs("parse_command_line_options", s.trace)

\* C11 (as claimed): the processes of a group, all constructed with the same
\* argument list, hold the same Settings and take the same branches: the
\* parse phase fails on all of them or on none, and once run() has been
\* called on two of them, both have called the collective read or neither
\* has.
C11_SameBranches ==
    \A p, q \in Procs :
        (ParseDone(proc[p]) /\ ParseDone(proc[q]))
            => /\ proc[p].m_settings = proc[q].m_settings
               /\ (proc[p].pc = "ParseFailed") <=> (proc[q].pc = "ParseFailed")
               /\ (proc[p].runs >= 1 /\ proc[q].runs >= 1)
                     => (Occurs("initial_decomp", proc[p].trace)
                           <=> Occurs("initial_decomp", proc[q].trace))

(* ---- C12 -------------------------------------------------------------- *)
\* The parse phase failed on some process of the group.
SomeParseFailed == \E p \in Procs : proc[p].pc = "ParseFailed"

\* While a process of the group is ParseFailed it has exit code 1 and has
\* made no collective call, and no process has returned from a collective
\* call.
C12_NoneReleased ==
    \A p \in Procs :
        proc[p].pc = "ParseFailed"
            => /\ proc[p].m_exitCode = 1
               /\ proc[p].entered = 0
               /\ \A q \in Procs : proc[q].pc \notin {"balance", "write", "Balanced"}

\* A process that parsed in a group of more than one enters the collective
\* read in run() unless a local call throws first, whatever became of its
\* peers; and with a ParseFailed peer it leaves the read only by the read
\* throwing there.
C12_EntersAndStays ==
    \A q \in Procs :
        /\ (RunCalled(q) /\ proc[q].pc = "Parsed" /\ numProcs >= 2
              /\ ~Occurs("throw", RunTrace(proc'[q])))
              => proc'[q].pc = "initial_decomp"
        /\ (SomeParseFailed /\ proc[q].pc = "initial_decomp")
              => \/ proc'[q].pc = "initial_decomp"
                 \/ /\ proc'[q].pc = "BalanceFailed"
                    /\ Occurs("throw", RunTrace(proc'[q]))

RECURSIVE Text(_)
Text(line) == IF line = <<>> THEN "" ELSE Head(line) \o Text(Tail(line))

IsOutputFilesLine(line) == line # <<>> /\ line[1] = "    Output files: "

\* The running message has been printed to its end in some call of run().
BannerCompleted(s) == Occurs("unregister_ostream", s.trace)

StreamNames == {"cout", "cerr", "log"}

\* C13: every output-files line that is on a stream reads exactly
\* "    Output files: <outputFilename>.<numProcs>.*", with the configured
\* output filename and the size of the group in decimal; and once the running
\* message has been printed, every stream it is routed to carries that line.
C13_OutputPattern ==
    \A p \in Procs :
        LET s == proc[p]
            pattern == s.m_settings.outputFilename \o "." \o ToString(numProcs) \o ".*"
        IN /\ \A n \in StreamNames :
                \A i \in 1 .. Len(s.out[n]) :
                    IsOutputFilesLine(s.out[n][i])
                        => Text(s.out[n][i]) = "    Output files: " \o pattern
           /\ BannerCompleted(s)
                 => \A n \in diag_targets(s.m_settings.logFilename) :
                        \E i \in 1 .. Len(s.out[n]) : IsOutputFilesLine(s.out[n][i])

\* Witness of C13: in a group of two with output out/mesh.g and a log file,
\* the root's log file carries the line "    Output files: out/mesh.g.2.*".
C13_Witness ==
    /\ numProcs = 2
    /\ proc[0].m_settings.outputFilename = "out/mesh.g"
    /\ BannerCompleted(proc[0])
    /\ \E i \in 1 .. Len(proc[0].out.log) :
          Text(proc[0].out.log[i]) = "    Output files: out/mesh.g.2.*"

(* ---- C14 -------------------------------------------------------------- *)
\* set_output_streams() has been called and has returned.
StreamsBound(s) ==
    /\ s.pc # "Constructing"
    /\ Occurs("set_output_streams", s.trace)
    /\ s.escaped # "LifeCycle"

IsSentinel(logName) == logName \in {"cout", "cerr"}

\* C14: from the return of set_output_streams() on, on the root process the
\* diagnostic stream is the standard stream named by logFilename when that is
\* "cout" or "cerr" (and no log file is opened), and the log file otherwise,
\* opened exactly once however often run() is called; on every other process
\* it is the null sink and no log file is opened; the stream handed to the
\* mesh-IO library is the same one.
C14_StreamBinding ==
    \A p \in Procs :
        LET s == proc[p]
            logName == s.m_settings.logFilename
        IN StreamsBound(s)
             => /\ s.m_outputP0 = IF p # 0 THEN "null"
                                  ELSE IF IsSentinel(logName) THEN logName ELSE "log"
                /\ s.logOpened = IF p = 0 /\ ~IsSentinel(logName) THEN 1 ELSE 0
                /\ s.iossOutput = s.m_outputP0

\* Witness of C14: in a group of two in named-file mode both processes are
\* Balanced after two calls of run(); the root has opened the log file once,
\* the other process none and holds the null sink.
C14_Witness ==
    /\ numProcs = 2
    /\ \A p \in Procs : proc[p].pc = "Balanced" /\ proc[p].runs = 2
    /\ proc[0].m_outputP0 = "log" /\ proc[0].logOpened = 1
    /\ proc[1].m_outputP0 = "null" /\ proc[1].logOpened = 0

(* ---- C15 -------------------------------------------------------------- *)
IsHeaderLine(line) == line # <<>> /\ line[1] = "Running stk_balance on "

Headers(stream) == Len(SelectSeq(stream, IsHeaderLine))

\* The position of the first occurrence of a call in a trace that has one.
FirstIndex(e, seq) == CHOOSE i \in 1 .. Len(seq) : seq[i] = e /\ \A j \in 1 .. (i - 1) : seq[j] # e

\* C15 (as claimed): the running banner is on each stream at most once in the
\* life of the instance; a process that is not the root and an instance whose
\* parse phase failed have it on no stream; and on the root the banner is
\* complete before the no-op predicate is first evaluated.
C15_BannerOncePerInstance ==
    \A p \in Procs :
        LET s == proc[p] IN
        /\ \A n \in StreamNames : Headers(s.out[n]) <= 1
        /\ (p # 0 \/ s.pc = "ParseFailed")
              => \A n \in StreamNames : Headers(s.out[n]) = 0
        /\ (p = 0 /\ Occurs("serial_no_op", s.trace))
              => /\ BannerCompleted(s)
                 /\ FirstIndex("unregister_ostream", s.trace)
                      < FirstIndex("serial_no_op", s.trace)

(* ---- C16 -------------------------------------------------------------- *)
IsSetOutputStreams(e) == e = "set_output_streams"

\* C16: an instance whose parse phase failed has bound nothing and done
\* nothing after the error message: its diagnostic stream and the stream of
\* the mesh-IO library are the ones it started with, no log file is opened,
\* nothing is on its standard output or log file, and print_parse_error is
\* the last call it ever makes; an instance whose parse phase succeeded has
\* called set_output_streams exactly once, in the constructor, before every
\* call of print_running_message and print_banner.
C16_BindOnlyOnParseSuccess ==
    \A p \in Procs :
        LET s == proc[p] IN
        /\ s.pc = "ParseFailed"
              => /\ ~Occurs("set_output_streams", s.trace)
                 /\ s.m_outputP0 = "initial" /\ s.iossOutput = "initial"
                 /\ s.logOpened = 0 /\ s.registered = {}
                 /\ s.out.cout = <<>> /\ s.out.log = <<>>
                 /\ s.trace[Len(s.trace)] = "print_parse_error"
        /\ (ParseDone(s) /\ ~ThrewIn(s, ParseCalls))
              => /\ Len(SelectSeq(s.trace, IsSetOutputStreams)) = 1
                 /\ FirstIndex("set_output_streams", s.trace) <= 4
                 /\ \A i \in 1 .. Len(s.trace) :
                       s.trace[i] \in {"print_running_message", "print_banner"}
                          => FirstIndex("set_output_streams", s.trace) < i

\* Witness of C16: in one group the parse phase failed on a process, on which
\* run() has been called twice, and succeeded on the root, which has printed
\* its banner to the log file it bound.
C16_Witness ==
    /\ numProcs = 2
    /\ proc[1].pc = "ParseFailed" /\ proc[1].runs = 2
    /\ proc[0].m_outputP0 = "log" /\ Occurs("print_banner", proc[0].trace)

(* ---- C17 -------------------------------------------------------------- *)
RunningLabels ==
    {"Running stk_balance on ", "        Log file: ", "      Input file: ",
     "    Output files: "}

IsRunningLine(line) == line # <<>> /\ line[1] \in RunningLabels

IsLogFileLine(line) == line # <<>> /\ line[1] = "        Log file: "

RunningLines(stream) == SelectSeq(stream, IsRunningLine)

LogFileLines(stream) == Len(SelectSeq(stream, IsLogFileLine))

IsUnregister(e) == e = "unregister_ostream"

\* The calls of print_running_message that printed the message to its end.
BannersPrinted(s) == Len(SelectSeq(s.trace, IsUnregister))

\* C17: on the root, with a log file the lines of the running message are on
\* the log file and on the standard output, the same lines on both, one
\* log-file line naming the file per message, and none of them on the
\* standard error; with "cout" or "cerr" they are on that stream alone, and
\* no log-file line is on any stream.
C17_BannerRouting ==
    LET s == proc[0]
        logName == s.m_settings.logFilename
    IN StreamsBound(s)
         => IF ~IsSentinel(logName)
            THEN /\ RunningLines(s.out.log) = RunningLines(s.out.cout)
                 /\ RunningLines(s.out.cerr) = <<>>
                 /\ Headers(s.out.log) = BannersPrinted(s)
                 /\ LogFileLines(s.out.log) = BannersPrinted(s)
                 /\ \A i \in 1 .. Len(s.out.log) :
                       IsLogFileLine(s.out.log[i])
                          => s.out.log[i] = <<"        Log file: ", logName>>
            ELSE /\ Headers(s.out[logName]) = BannersPrinted(s)
                 /\ \A n \in StreamNames \ {logName} : RunningLines(s.out[n]) = <<>>
                 /\ \A n \in StreamNames : LogFileLines(s.out[n]) = 0

\* Witness of C17: the root of a group of two, in named-file mode, has printed
\* the running message, and its four lines are on the log file and on the
\* standard output.
C17_Witness ==
    /\ numProcs = 2
    /\ proc[0].m_settings.logFilename = "balance.log"
    /\ BannersPrinted(proc[0]) = 1
    /\ Len(RunningLines(proc[0].out.log)) = 4
    /\ Len(RunningLines(proc[0].out.cout)) = 4

(* ---- C18 -------------------------------------------------------------- *)
\* The process waits in a collective call that p, whose run() failed, has not
\* taken part in.
WaitsFor(q, p) ==
    /\ proc[q].pc \in InCollective
    /\ proc[p].m_exitCode = 2
    /\ proc[q].entered > Joined(proc[p])

\* While a process has exit code 2 its run() is over (state BalanceFailed,
\* print_balance_error its last call right after the throw), and no process
\* has returned from a collective call the failed process did not take part
\* in.
C18_FailedStaysOut ==
    \A p \in Procs :
        LET s == proc[p] IN
        s.m_exitCode = 2
            => /\ s.pc = "BalanceFailed"
               /\ Len(s.trace) >= 2
               /\ SubSeq(s.trace, Len(s.trace) - 1, Len(s.trace))
                    = <<"throw", "print_balance_error">>
               /\ \A q \in Procs : Returned(proc[q]) <= Joined(s)

\* The step in which run() fails on p changes no other process; after it p
\* makes no collective call; and a process waiting for p stays in its call,
\* or leaves it by the call throwing there.
C18_NoRelease ==
    \A p \in Procs :
        /\ (proc[p].m_exitCode # 2 /\ proc'[p].m_exitCode = 2)
              => \A q \in Procs \ {p} : proc'[q] = proc[q]
        /\ proc[p].m_exitCode = 2
              => /\ proc'[p].entered = proc[p].entered
                 /\ proc'[p].left = proc[p].left
        /\ \A q \in Procs :
              WaitsFor(q, p)
                 => \/ proc'[q].pc = proc[q].pc /\ proc'[q].entered = proc[q].entered
                    \/ proc'[q].pc = "BalanceFailed" /\ proc'[q].m_exitCode = 2

\* C18: a step failure in run() ends the run of that process alone: exit
\* code 2, no further collective call, no effect on any peer; a peer waiting
\* in the collective call that failed, or in the next one, is never released
\* by it.
C18_StepFailureStrandsPeers == [](C18_FailedStaysOut) /\ [][C18_NoRelease]_vars

\* Witness of C18: the read threw on one process after it had taken part in
\* it; that process has returned with exit code 2, and its peer, released
\* from the read, waits in the collective balance.
C18_Witness ==
    \E p, q \in Procs :
        /\ proc[p].pc = "BalanceFailed" /\ proc[p].m_exitCode = 2
        /\ proc[p].entered = 1 /\ proc[p].left = 0
        /\ proc[q].pc = "balance"
        /\ WaitsFor(q, p)

(* ---- C19 -------------------------------------------------------------- *)
\* C19 (as claimed): in every state outside the banner-printing call (the
\* call is inside one step of run(), so in every state) no secondary
\* diagnostic stream is registered on any process.
C19_DiagStreamScoped ==
    \A p \in Procs : proc[p].registered = {}

(* ---- C20 -------------------------------------------------------------- *)
\* The group under the hypothesis of lock-step execution: every process
\* parses the same well-formed argument list and sees the input file.
InitLockStep ==
    /\ Init
    /\ argv.wellFormed
    /\ \A p \in Procs : fileExists[p]

\* A collective call that every member of the group is inside fails on all
\* of them, after the communication: each member's handler of run() runs.
GroupThrows ==
    /\ \E c \in InCollective : \A p \in Procs : proc[p].pc = c
    /\ proc' = [p \in Procs |-> run_catch(Throw(proc[p], "step failed"))]
    /\ UNCHANGED <<numProcs, argv, fileExists>>

\* The steps of the group when a collective call either returns on every
\* member or fails on every member.
NextLockStep ==
    \/ \E p \in Ranks :
          \/ Construct(p)
          \/ Run(p)
          \/ CollectiveReturns(p)
          \/ ExitCode(p)
    \/ GroupThrows

\* Every process runs: its constructor and its calls of run() are made, and a
\* collective call that can return does.
FairLockStep ==
    \A p \in Ranks :
        /\ WF_vars(Construct(p))
        /\ WF_vars(Run(p))
        /\ WF_vars(CollectiveReturns(p))

SpecLockStep == InitLockStep /\ [][NextLockStep]_vars /\ FairLockStep

\* run() has been called on every process and has returned on every process.
AllReturned == \A p \in Procs : proc[p].runs >= 1 /\ proc[p].pc \in AtRest

\* The first call of run() has returned on every process, and no second call
\* has been made.
AllReturnedOnce == \A p \in Procs : proc[p].runs = 1 /\ proc[p].pc \in AtRest

\* C20 (as claimed): with identical settings on all processes and collective
\* calls that complete on all members or fail on all members, eventually
\* run() has returned on every process, and when it has, all exit codes are
\* equal, all 0 or all 2.
C20_AllReturnWithSameCode ==
    /\ <>AllReturned
    /\ [](AllReturnedOnce
            => \/ \A p \in Procs : proc[p].m_exitCode = 0
               \/ \A p \in Procs : proc[p].m_exitCode = 2)

====
